---- MODULE Spec2Model ----
(***************************************************************************)
(* jsondict.JsonDict: a dict that mirrors itself to a JSON file.           *)
(*                                                                         *)
(* The model follows src/jsondict.py.  File contents are sequences of      *)
(* tokens, so that a partly written file is a proper prefix of a document. *)
(* The file system holds the target file (name 0) and the temporary files  *)
(* made by tempfile.mkstemp (names 1..).  save() is modelled step by step  *)
(* (makedirs, to_json, mkstemp, write, close, move) because a fault or a   *)
(* crash can fall between any two steps.                                   *)
(***************************************************************************)
EXTENDS Integers, Sequences, FiniteSets, TLC

\* ------------------------------------------------------------------ bounds
\* I/O faults the environment may inject in one behaviour.
MaxFaults == 1
\* Keys, ordered as their strings are ordered ("a" < "b").
Keys == {1, 2}
Values == {1, 2}
\* mkstemp always finds an unused name: one more name than files can be orphaned.
TmpNames == 1..(MaxFaults + 1)
\* The name of the target file (self.filename) in the file system.
Target == 0

\* ------------------------------------------------------------- documents
Tok(kind, k, v) == <<kind, k, v>>
LBrace == Tok("{", 0, 0)
RBrace == Tok("}", 0, 0)
GzHeader == Tok("gzip-header", 0, 0)
GzTrailer(n) == Tok("gzip-trailer", n, 0)

\* All dicts over Keys.
Dicts == UNION {[D -> Values] : D \in SUBSET Keys}
EmptyDict == [k \in {} |-> 0]

Min(S) == CHOOSE x \in S : \A y \in S : x <= y

RECURSIVE SortedKeys(_)
SortedKeys(S) == IF S = {} THEN <<>>
                 ELSE LET k == Min(S) IN <<k>> \o SortedKeys(S \ {k})

\* json.dumps(dict(self), debug=True): sorted keys, one entry per key.
dumps(m) ==
    LET ks == SortedKeys(DOMAIN m)
    IN <<LBrace>> \o [i \in 1..Len(ks) |-> Tok("entry", ks[i], m[ks[i]])] \o <<RBrace>>

\* The orders in which iterating over dict m may give its keys.
Iterations(m) ==
    {it \in [1..Cardinality(DOMAIN m) -> DOMAIN m] :
        \A i, j \in DOMAIN it : i # j => it[i] # it[j]}

\* Sequence s with key k put in at its place (s ascending).
RECURSIVE Insert(_, _)
Insert(k, s) == IF s = <<>> THEN <<k>>
                ELSE IF k <= Head(s) THEN <<k>> \o s
                ELSE <<Head(s)>> \o Insert(k, Tail(s))

RECURSIVE Sorted(_)
\* Mutant: the keys are written in the order the iteration gives them.
Unsorted(it) == it

\* sort_keys: the keys of iteration it in ascending order.
Sorted(it) == IF it = <<>> THEN <<>> ELSE Insert(Head(it), Sorted(Tail(it)))

\* json.dumps(dict(self), debug=True) when the dict iterates in order it.
encode(it, m) ==
    LET ks == Sorted(it)
    IN <<LBrace>> \o [i \in 1..Len(ks) |-> Tok("entry", ks[i], m[ks[i]])] \o <<RBrace>>

\* json.loads accepts exactly the well-formed documents.
WellFormed(doc) ==
    /\ Len(doc) >= 2
    /\ doc[1] = LBrace
    /\ doc[Len(doc)] = RBrace
    /\ \A i \in 2..(Len(doc) - 1) : doc[i][1] = "entry"

\* json.loads of a well-formed document; a repeated key takes its last value.
loads(doc) ==
    LET idx == 2..(Len(doc) - 1)
        ks == {doc[i][2] : i \in idx}
        last(k) == CHOOSE i \in idx : doc[i][2] = k /\ \A j \in idx : doc[j][2] = k => j <= i
    IN [k \in ks |-> doc[last(k)][3]]

\* gzip.GzipFile: header, the data, trailer with the data's length.
Gzip(bytes) == <<GzHeader>> \o bytes \o <<GzTrailer(Len(bytes))>>

IsGzip(c) ==
    /\ Len(c) >= 2
    /\ c[1] = GzHeader
    /\ c[Len(c)] = GzTrailer(Len(c) - 2)
    /\ \A i \in 2..(Len(c) - 1) : c[i][1] \notin {"gzip-header", "gzip-trailer"}

Gunzip(c) == SubSeq(c, 2, Len(c) - 1)

Prefix(s, n) == SubSeq(s, 1, n)

\* ------------------------------------------------------------------ state
VARIABLES
    filename,      \* [dir, gz]: has a directory part, ends with '.gz'
    autosave,      \* constructor argument
    compressArg,   \* constructor argument: "None", "True" or "False"
    safely_write,  \* constructor argument
    compress,      \* self.compress
    data,          \* the dict itself
    loaded,        \* load(): the local 'data'
    dump,          \* save(): the local 'dump'
    tmp_fn,        \* safely_write(): the local 'tmp_fn' (0: none)
    dirExists,     \* the parent directory of filename exists
    fs,            \* file name -> content, for the files that exist
    pc,            \* where the running call is
    op,            \* the public call running or last run
    cont,          \* what follows the running save: "ret" or "load_update"
    result,        \* how the last call of op ended: "ok" or the exception
    faults,        \* I/O faults injected so far
    failed,        \* steps of the running/last call that failed
    saveFile,      \* the target as it was when op, or its latest save(), started
    ret,           \* what the last read of the dict gave back
    other          \* a second JsonDict on the same filename: [pc, data, tmp_fn]

args == <<filename, autosave, compressArg, safely_write>>
vars == <<filename, autosave, compressArg, safely_write, compress, data, loaded,
          dump, tmp_fn, dirExists, fs, pc, op, cont, result, faults, failed,
          saveFile, ret, other>>

\* The second JsonDict, not in a call.
OtherIdle == [pc |-> "idle", data |-> EmptyDict, tmp_fn |-> 0]

\* The target file as a reader sees it.
FileOf(f) == IF Target \in DOMAIN f
             THEN [exists |-> TRUE, content |-> f[Target]]
             ELSE [exists |-> FALSE, content |-> <<>>]

\* The bytes written to a file for payload d: gzip.GzipFile / gzip.open or plain.
Stream(d) == IF compress THEN Gzip(d) ELSE d

\* os.path.dirname(filename) names a directory that is missing.
DirMissing == filename.dir /\ ~dirExists

\* f with file n holding c.
Put(f, n, c) == [x \in DOMAIN f \cup {n} |-> IF x = n THEN c ELSE f[x]]
\* f without file n.
Remove(f, n) == [x \in DOMAIN f \ {n} |-> f[x]]

\* ------------------------------------------------------------------- Init
InitDicts == {[k \in {1} |-> 1]}
\* Files a path may hold before the program starts: documents, plain or
\* gzipped, and a cut-off one.
InitFiles == {dumps(m) : m \in InitDicts} \cup {Gzip(dumps(m)) : m \in InitDicts}
             \cup {<<LBrace>>, Gzip(<<LBrace>>)}
\* What dict.__init__(*args, **kwargs) puts in the dict before any file is read.
InitContents == {EmptyDict, [k \in {2} |-> 2]}

Init ==
    /\ filename \in {[dir |-> FALSE, gz |-> FALSE], [dir |-> TRUE, gz |-> TRUE]}
    /\ autosave \in BOOLEAN
    /\ compressArg \in {"None", "True", "False"}
    /\ safely_write \in BOOLEAN
    /\ compress = FALSE
    /\ data \in InitContents
    /\ loaded = EmptyDict
    /\ dump = <<>>
    /\ tmp_fn = 0
    /\ dirExists \in (IF filename.dir THEN BOOLEAN ELSE {TRUE})
    /\ fs \in (IF dirExists
               THEN {EmptyDict} \cup {Put(EmptyDict, Target, c) : c \in InitFiles}
               ELSE {EmptyDict})
    /\ pc = "new"
    /\ op = "init"
    /\ cont = "ret"
    /\ result = "none"
    /\ faults = 0
    /\ failed = {}
    /\ saveFile = FileOf(fs)
    /\ ret = EmptyDict
    /\ other = OtherIdle


\* ------------------------------------------------------- calls and returns
\* A public call starts on the object; the locals of the call before are gone.
Begin(name) ==
    /\ pc = "idle"
    /\ op' = name
    /\ failed' = {}
    /\ loaded' = EmptyDict
    /\ dump' = <<>>
    /\ tmp_fn' = 0
    /\ saveFile' = FileOf(fs)
    /\ UNCHANGED <<args, other, compress, dirExists, fs, faults>>

\* Mutant: the hook saves whatever self.autosave says.
SavesAfterAlways(name) == name \in {"setitem", "delitem", "clear", "update"}

\* 'if self.autosave: self.save()' at the end of the four overridden mutators.
SavesAfter(name) == autosave /\ name \in {"setitem", "delitem", "clear", "update"}

\* The call returns normally.
Done == pc' = "idle" /\ result' = "ok"

\* Mutant: __init__ catches the exception and hands out the object.
RaiseCaught(e, step) ==
    /\ failed' = failed \cup {step}
    /\ result' = e
    /\ pc' = "idle"

\* An exception leaves the running call; out of __init__ it leaves no object.
Raise(e, step) ==
    /\ failed' = failed \cup {step}
    /\ result' = e
    /\ pc' = IF op = "init" THEN "dead" ELSE "idle"

\* The environment injects an I/O fault.
Fault ==
    /\ faults < MaxFaults
    /\ faults' = faults + 1

\* ------------------------------------------------------------ __init__
\* Mutant: the suffix decides, whatever the argument says.
ResolveCompressBySuffix == filename.gz

\* self.compress = compress if compress is not None else filename.endswith('.gz')
ResolveCompress == IF compressArg = "None" THEN filename.gz ELSE compressArg = "True"

\* os.path.isfile(self.filename)
IsFile == Target \in DOMAIN fs

Construct ==
    /\ pc = "new"
    /\ compress' = ResolveCompress
    /\ IF IsFile
       THEN pc' = "load" /\ UNCHANGED result
       ELSE Done
    /\ UNCHANGED <<args, ret, other, data, loaded, dump, tmp_fn, dirExists,
                   fs, op, cont, faults, failed, saveFile>>

\* ------------------------------------------------------------ mutators
\* A mutator of the dict: change the dict, then the autosave hook if it has one.
Mutate(name, d) ==
    /\ Begin(name)
    /\ data' = d
    /\ ret' = EmptyDict
    /\ IF SavesAfter(name)
       THEN pc' = "makedirs" /\ result' = "none"
       ELSE Done
    /\ cont' = "ret"

\* Mutant: a missing key is passed over and the hook runs all the same.
KeyErrorOfIgnored(name) == Mutate(name, data)

\* A call that raises KeyError before it changes anything.
KeyErrorOf(name) ==
    /\ Begin(name)
    /\ pc' = "idle"
    /\ result' = "KeyError"
    /\ ret' = EmptyDict
    /\ UNCHANGED <<data, cont>>

Without(d, k) == [x \in DOMAIN d \ {k} |-> d[x]]
With(d, k, v) == [x \in DOMAIN d \cup {k} |-> IF x = k THEN v ELSE d[x]]
Merge(d, e) == [x \in DOMAIN d \cup DOMAIN e |-> IF x \in DOMAIN e THEN e[x] ELSE d[x]]

SetItem == \E k \in Keys, v \in Values : Mutate("setitem", With(data, k, v))

\* __delitem__(name): dict's own __delitem__ raises KeyError before the hook.
DelItemOf(k) ==
    IF k \in DOMAIN data
    THEN Mutate("delitem", Without(data, k))
    ELSE KeyErrorOf("delitem")

DelItem == \E k \in Keys : DelItemOf(k)

Clear == Mutate("clear", EmptyDict)

Update == \E e \in Dicts : Mutate("update", Merge(data, e))

\* Inherited from dict, not overridden by JsonDict.
Pop == \E k \in Keys :
    IF k \in DOMAIN data
    THEN Mutate("pop", Without(data, k))
    ELSE KeyErrorOf("pop")

PopItem ==
    IF data = EmptyDict
    THEN KeyErrorOf("popitem")
    ELSE \E k \in DOMAIN data : Mutate("popitem", Without(data, k))

SetDefault == \E k \in Keys, v \in Values :
    Mutate("setdefault", IF k \in DOMAIN data THEN data ELSE With(data, k, v))

\* ------------------------------------------------------------ reads
\* The part of d at key k: the item, or nothing.
Only(d, k) == [x \in DOMAIN d \cap {k} |-> d[x]]

\* Mutant: a read opens the file as load() does and answers from it.
AnswerFromFile == IF IsFile /\ WellFormed(fs[Target]) THEN loads(fs[Target]) ELSE data

\* dict.__getitem__, __contains__ and __iter__ are inherited: they look at the
\* dict itself.
Answer == data

\* db[k]
GetItem == \E k \in Keys :
    /\ Begin("getitem")
    /\ ret' = Only(Answer, k)
    /\ pc' = "idle"
    /\ result' = IF k \in DOMAIN Answer THEN "ok" ELSE "KeyError"
    /\ UNCHANGED <<data, cont>>

\* k in db
Contains == \E k \in Keys :
    /\ Begin("contains")
    /\ ret' = Only(Answer, k)
    /\ Done
    /\ UNCHANGED <<data, cont>>

\* for k in db / db.items()
Iterate ==
    /\ Begin("iter")
    /\ ret' = Answer
    /\ Done
    /\ UNCHANGED <<data, cont>>

\* ------------------------------------------------------------ load()
Load ==
    /\ Begin("load")
    /\ pc' = "load"
    /\ result' = "none"
    /\ ret' = EmptyDict
    /\ UNCHANGED <<data, cont>>

\* Mutant: load() updates the dict without clearing it first.
UpdateOnly(d, e) == Merge(d, e)

\* self.clear(); self.update(data): dict d after both, e being the decoded data.
ClearUpdate(d, e) == Merge(EmptyDict, e)

\* self.open(self.filename).read(): the bytes read, or the exception.
ReadDump ==
    IF ~IsFile THEN [ok |-> FALSE, err |-> "IOError", bytes |-> <<>>]
    ELSE IF ~compress THEN [ok |-> TRUE, err |-> "", bytes |-> fs[Target]]
    ELSE IF IsGzip(fs[Target]) THEN [ok |-> TRUE, err |-> "", bytes |-> Gunzip(fs[Target])]
    ELSE [ok |-> FALSE, err |-> "IOError", bytes |-> <<>>]

\* Lines 141-144: read, json.loads, self.clear(), self.update(data).
LoadRead ==
    /\ pc = "load"
    /\ LET r == ReadDump IN
       IF ~r.ok
       THEN /\ Raise(r.err, "read")
            /\ UNCHANGED <<data, loaded, cont, saveFile>>
       ELSE IF ~WellFormed(r.bytes)
       THEN /\ Raise("ValueError", "loads")
            /\ UNCHANGED <<data, loaded, cont, saveFile>>
       ELSE /\ loaded' = loads(r.bytes)
            /\ UNCHANGED <<failed, saveFile>>
            /\ IF SavesAfter("clear")
               THEN /\ data' = EmptyDict
                    /\ pc' = "makedirs"
                    /\ cont' = "load_update"
                    /\ UNCHANGED result
               ELSE IF SavesAfter("update")
               THEN /\ data' = ClearUpdate(data, loaded')
                    /\ pc' = "makedirs"
                    /\ cont' = "ret"
                    /\ UNCHANGED result
               ELSE /\ data' = ClearUpdate(data, loaded')
                    /\ Done
                    /\ cont' = "ret"
    /\ UNCHANGED <<args, ret, other, compress, dump, tmp_fn, dirExists, fs,
                   op, faults>>

\* ------------------------------------------------------------ save()
Save ==
    /\ Begin("save")
    /\ pc' = "makedirs"
    /\ result' = "none"
    /\ ret' = EmptyDict
    /\ cont' = "ret"
    /\ UNCHANGED data

\* save() returns normally, the file system being f: the call returns, or
\* load() goes on with self.update(data) and its save.
SaveReturns(f) ==
    IF cont = "load_update"
    THEN /\ data' = loaded
         /\ cont' = "ret"
         /\ IF SavesAfter("update")
            THEN pc' = "makedirs" /\ saveFile' = FileOf(f) /\ UNCHANGED result
            ELSE Done /\ UNCHANGED saveFile
    ELSE /\ Done
         /\ UNCHANGED <<data, cont, saveFile>>

\* makedirs(filename): os.makedirs(dirname) if there is a dirname; an OSError
\* (the directory exists) is passed over.
Makedirs ==
    /\ pc = "makedirs"
    /\ dirExists' = TRUE
    /\ pc' = "to_json"
    /\ UNCHANGED <<args, ret, other, compress, data, loaded, dump, tmp_fn, fs,
                   op, cont, result, faults, failed, saveFile>>

\* os.makedirs fails to create the missing directory: 'except OSError: pass'.
MakedirsFail ==
    /\ pc = "makedirs"
    /\ DirMissing
    /\ Fault
    /\ failed' = failed \cup {"makedirs"}
    /\ pc' = "to_json"
    /\ UNCHANGED <<args, ret, other, compress, data, loaded, dump, tmp_fn,
                   dirExists, fs, op, cont, result, saveFile>>

\* dump = self.to_json(); then the branch on self.safely_write.
ToJson ==
    /\ pc = "to_json"
    /\ \E it \in Iterations(data) : dump' = encode(it, data)
    /\ pc' = IF safely_write THEN "mkstemp" ELSE "open_w"
    /\ UNCHANGED <<args, ret, other, compress, data, loaded, tmp_fn,
                   dirExists, fs, op, cont, result, faults, failed, saveFile>>

\* ------------------------------------------------- safely_write(), lines 172-188
\* Mutant: the temp file's name is made from the target's name alone.
FixedName(f) == Min(TmpNames)

\* mkstemp makes a file under a name no file has; names differ only in the
\* random part, so the model takes the first unused one.
FreshName(f) == Min(TmpNames \ DOMAIN f)

\* fd, tmp_fn = tempfile.mkstemp(dir=dirname, suffix=suffix); f = os.fdopen(fd, 'w')
Mkstemp ==
    /\ pc = "mkstemp"
    /\ IF DirMissing
       THEN /\ Raise("OSError", "mkstemp")
            /\ UNCHANGED <<tmp_fn, fs>>
       ELSE /\ tmp_fn' = FreshName(fs)
            /\ fs' = Put(fs, tmp_fn', <<>>)
            /\ pc' = "sw_write"
            /\ UNCHANGED <<result, failed>>
    /\ UNCHANGED <<args, ret, other, compress, data, loaded, dump, dirExists,
                   op, cont, faults, saveFile>>

MkstempFail ==
    /\ pc = "mkstemp"
    /\ ~DirMissing
    /\ Fault
    /\ Raise("OSError", "mkstemp")
    /\ UNCHANGED <<args, ret, other, compress, data, loaded, dump, tmp_fn,
                   dirExists, fs, op, cont, saveFile>>

\* The first block of payload s reaches the disk in file n; the rest stays in
\* the buffer until the file is closed.
Flush(n, s) ==
    /\ fs[n] = <<>>
    /\ fs' = Put(fs, n, Prefix(s, 1))

\* gf.write(data) / f.write(data) under way.
SwFlush ==
    /\ pc = "sw_write"
    /\ Flush(tmp_fn, Stream(dump))
    /\ UNCHANGED <<args, ret, other, compress, data, loaded, dump, tmp_fn,
                   dirExists, pc, op, cont, result, faults, failed, saveFile>>

\* The write calls (and gf.close()) have returned; f.close() is next.
SwWritten ==
    /\ pc = "sw_write"
    /\ pc' = "sw_close"
    /\ UNCHANGED <<args, ret, other, compress, data, loaded, dump, tmp_fn,
                   dirExists, fs, op, cont, result, faults, failed, saveFile>>

\* A write raises IOError: nothing in safely_write catches it.
SwWriteFail ==
    /\ pc = "sw_write"
    /\ Fault
    /\ Raise("IOError", "write")
    /\ UNCHANGED <<args, ret, other, compress, data, loaded, dump, tmp_fn,
                   dirExists, fs, op, cont, saveFile>>

\* f.close(): what is left in the buffer is written.
SwClose ==
    /\ pc = "sw_close"
    /\ fs' = Put(fs, tmp_fn, Stream(dump))
    /\ pc' = "sw_move"
    /\ UNCHANGED <<args, ret, other, compress, data, loaded, dump, tmp_fn,
                   dirExists, op, cont, result, faults, failed, saveFile>>

\* f.close() raises IOError: the last bytes could not be written.
SwCloseFail ==
    /\ pc = "sw_close"
    /\ Fault
    /\ Raise("IOError", "close")
    /\ UNCHANGED <<args, ret, other, compress, data, loaded, dump, tmp_fn,
                   dirExists, fs, op, cont, saveFile>>

\* Mutant: the move copies the temp file over the target and stops early.
MovedFsTorn == Put(Remove(fs, tmp_fn), Target, Prefix(fs[tmp_fn], 1))

\* shutil.move(tmp_fn, filename): the temp file is in the target's directory,
\* so the move is os.rename, which puts the whole file at the target in one step.
MovedFs == Put(Remove(fs, tmp_fn), Target, fs[tmp_fn])

Move ==
    /\ pc = "sw_move"
    /\ fs' = MovedFs
    /\ SaveReturns(fs')
    /\ UNCHANGED <<args, ret, other, compress, loaded, dump, tmp_fn,
                   dirExists, op, faults, failed>>

\* Mutant: the failed move has already emptied the target.
MoveFailClobbers ==
    /\ pc = "sw_move"
    /\ Fault
    /\ fs' = Put(Remove(fs, tmp_fn), Target, <<>>)
    /\ Raise("IOError", "move")
    /\ UNCHANGED <<args, ret, other, compress, data, loaded, dump, tmp_fn,
                   dirExists, op, cont, saveFile>>

\* except IOError: os.unlink(tmp_fn); raise
MoveFail ==
    /\ pc = "sw_move"
    /\ Fault
    /\ fs' = Remove(fs, tmp_fn)
    /\ Raise("IOError", "move")
    /\ UNCHANGED <<args, ret, other, compress, data, loaded, dump, tmp_fn,
                   dirExists, op, cont, saveFile>>

\* ----------------------------- self.open(self.filename, 'w').write(dump), line 152
\* open(filename, 'w') / gzip.open(filename, 'w'): the target is created or emptied.
OpenW ==
    /\ pc = "open_w"
    /\ IF DirMissing
       THEN Raise("IOError", "open") /\ UNCHANGED fs
       ELSE /\ fs' = Put(fs, Target, <<>>)
            /\ pc' = "uw_write"
            /\ UNCHANGED <<result, failed>>
    /\ UNCHANGED <<args, ret, other, compress, data, loaded, dump, tmp_fn,
                   dirExists, op, cont, faults, saveFile>>

OpenWFail ==
    /\ pc = "open_w"
    /\ ~DirMissing
    /\ Fault
    /\ Raise("IOError", "open")
    /\ UNCHANGED <<args, ret, other, compress, data, loaded, dump, tmp_fn,
                   dirExists, fs, op, cont, saveFile>>

UwFlush ==
    /\ pc = "uw_write"
    /\ Flush(Target, Stream(dump))
    /\ UNCHANGED <<args, ret, other, compress, data, loaded, dump, tmp_fn,
                   dirExists, pc, op, cont, result, faults, failed, saveFile>>

\* write(dump) has returned; the file object is unreferenced.
UwWritten ==
    /\ pc = "uw_write"
    /\ pc' = "uw_drop"
    /\ UNCHANGED <<args, ret, other, compress, data, loaded, dump, tmp_fn,
                   dirExists, fs, op, cont, result, faults, failed, saveFile>>

UwWriteFail ==
    /\ pc = "uw_write"
    /\ Fault
    /\ Raise("IOError", "write")
    /\ UNCHANGED <<args, ret, other, compress, data, loaded, dump, tmp_fn,
                   dirExists, fs, op, cont, saveFile>>

\* The code never closes the file: the interpreter closes it when it drops the
\* object.  The close writes what is left in the buffer.
UwDrop ==
    /\ pc = "uw_drop"
    /\ fs' = Put(fs, Target, Stream(dump))
    /\ SaveReturns(fs')
    /\ UNCHANGED <<args, ret, other, compress, loaded, dump, tmp_fn,
                   dirExists, op, faults, failed>>

\* The close in the destructor fails to write the rest: a destructor cannot
\* raise, so save() returns normally.
UwDropFail ==
    /\ pc = "uw_drop"
    /\ Fault
    /\ failed' = failed \cup {"close"}
    /\ SaveReturns(fs)
    /\ UNCHANGED <<args, ret, other, compress, loaded, dump, tmp_fn,
                   dirExists, fs, op>>

\* ------------------------------------------- a second JsonDict on the same file
\* The dicts the second object saves.
OtherDicts == {[k \in {1} |-> 2], [k \in {2} |-> 1]}

\* The second object and the file system change; the first object does not.
OtherFrame == UNCHANGED <<args, compress, data, loaded, dump, tmp_fn, pc, op,
                          cont, result, faults, failed, saveFile, ret>>

\* The second object has dict d and starts save() in safe mode: makedirs, to_json.
OtherSave == \E d \in OtherDicts :
    /\ other.pc = "idle"
    /\ pc # "new"
    /\ other' = [pc |-> "mkstemp", data |-> d, tmp_fn |-> 0]
    /\ dirExists' = TRUE
    /\ UNCHANGED fs
    /\ OtherFrame

OtherMkstemp ==
    /\ other.pc = "mkstemp"
    /\ other' = [other EXCEPT !.pc = "sw_write", !.tmp_fn = FreshName(fs)]
    /\ fs' = Put(fs, other'.tmp_fn, <<>>)
    /\ UNCHANGED dirExists
    /\ OtherFrame

OtherFlush ==
    /\ other.pc = "sw_write"
    /\ Flush(other.tmp_fn, Stream(dumps(other.data)))
    /\ UNCHANGED <<other, dirExists>>
    /\ OtherFrame

OtherClose ==
    /\ other.pc = "sw_write"
    /\ fs' = Put(fs, other.tmp_fn, Stream(dumps(other.data)))
    /\ other' = [other EXCEPT !.pc = "sw_move"]
    /\ UNCHANGED dirExists
    /\ OtherFrame

OtherMove ==
    /\ other.pc = "sw_move"
    /\ fs' = Put(Remove(fs, other.tmp_fn), Target, fs[other.tmp_fn])
    /\ other' = [other EXCEPT !.pc = "idle"]
    /\ UNCHANGED dirExists
    /\ OtherFrame

\* A crash of the process stops the behaviour where it is: the files stay as
\* the state has them.  Stuttering already allows it at every state.
Next ==
    \/ Construct
    \/ SetItem \/ DelItem \/ Clear \/ Update
    \/ Pop \/ PopItem \/ SetDefault
    \/ GetItem \/ Contains \/ Iterate
    \/ Load \/ LoadRead
    \/ Save \/ Makedirs \/ MakedirsFail \/ ToJson
    \/ Mkstemp \/ MkstempFail
    \/ SwFlush \/ SwWritten \/ SwWriteFail \/ SwClose \/ SwCloseFail
    \/ Move \/ MoveFail
    \/ OpenW \/ OpenWFail
    \/ UwFlush \/ UwWritten \/ UwWriteFail \/ UwDrop \/ UwDropFail

Spec == Init /\ [][Next]_vars

\* Two objects on one file, both in safe mode, the environment injecting no
\* fault: the first object's calls and the second object's saves interleave.
InitTwo ==
    /\ Init
    /\ safely_write
    /\ compressArg = "None"

NextTwo ==
    \/ Construct
    \/ SetItem
    \/ GetItem \/ Contains \/ Iterate
    \/ Load \/ LoadRead
    \/ Save \/ Makedirs \/ ToJson
    \/ Mkstemp
    \/ SwFlush \/ SwWritten \/ SwClose
    \/ Move
    \/ OtherSave \/ OtherMkstemp \/ OtherFlush \/ OtherClose \/ OtherMove

SpecTwo == InitTwo /\ [][NextTwo]_vars

\* ================================================================ claims
Mutators == {"setitem", "delitem", "clear", "update"}
Inherited == {"pop", "popitem", "setdefault"}

\* The call of op has returned to its caller.
Returned == pc \in {"idle", "dead"}
ReturnedOk == pc = "idle" /\ result = "ok"

\* What a reader gets who opens the target as load() does and decodes it.
Reloaded ==
    LET r == ReadDump IN
    IF r.ok /\ WellFormed(r.bytes)
    THEN [ok |-> TRUE, dict |-> loads(r.bytes)]
    ELSE [ok |-> FALSE, dict |-> EmptyDict]

DiskEqualsMemory == Reloaded.ok /\ Reloaded.dict = data

\* The complete document a save of the present dict puts at the target.
NewFile == [exists |-> TRUE, content |-> Stream(dumps(data))]

\* C1: with autosave on, after set, delete, clear or update has returned
\* normally, the decoded target file equals the dict in memory.
C1_AutosaveConsistency ==
    (autosave /\ ReturnedOk /\ op \in Mutators) => DiskEqualsMemory

\* C2: in safe mode the target is, in every state during and after a save, the
\* complete file it was when the save started (or absent) or the complete new
\* document; this holds wherever the process stops.
C2_SafeWriteAtomic ==
    safely_write => (FileOf(fs) = saveFile \/ FileOf(fs) = NewFile)

\* C2 witness: a safe save has replaced an existing, different document.
C2_Witness ==
    /\ safely_write /\ ReturnedOk /\ op = "save"
    /\ saveFile.exists /\ FileOf(fs) # saveFile /\ FileOf(fs) = NewFile

\* C3: in safe mode, when a save has failed in the write, the close or the
\* move, the call returns with the target unchanged and without its temp file.
C3_FailureCleanup ==
    (safely_write /\ Returned /\ failed \cap {"write", "close", "move"} # {})
        => (FileOf(fs) = saveFile /\ tmp_fn \notin DOMAIN fs)

\* C4: after save() has returned normally, loading the file (same compress
\* setting) gives the dict that was saved.
C4_RoundTrip ==
    (ReturnedOk /\ op = "save") => (Reloaded.ok /\ Reloaded.dict = data)

\* C5: after save() has returned normally the target holds exactly the
\* encoding of the dict (through gzip when compress is set), whatever it held.
C5_SavePostcondition ==
    (ReturnedOk /\ op = "save") => FileOf(fs) = NewFile

\* C6: with autosave off, no step of set, delete, clear, update (or of any call
\* other than save()) changes the file system.
C6_NoAutosaveNoWrite ==
    [][(~autosave /\ (fs' # fs \/ dirExists' # dirExists)) => op' = "save"]_vars

\* C6 witness: autosave off, a mutator has returned, memory and file differ.
C6_Witness ==
    /\ ~autosave /\ ReturnedOk /\ op \in Mutators
    /\ Reloaded.ok /\ Reloaded.dict # data

\* C7: with autosave on, after pop, popitem or setdefault (inherited from
\* dict) has returned normally, the decoded target file equals the dict.
C7_InheritedAutosave ==
    (autosave /\ ReturnedOk /\ op \in Inherited) => DiskEqualsMemory

\* C8: deleting a key that is not in the dict raises KeyError in that one step,
\* runs no save even with autosave on, and leaves the dict and the files as
\* they were.
C8_DeleteAbsent ==
    [][\A k \in Keys : (k \notin DOMAIN data /\ DelItemOf(k))
          => (result' = "KeyError" /\ pc' = "idle" /\ data' = data /\ fs' = fs)]_vars

\* C8 witness: autosave on, a file on disk, delete has raised KeyError.
C8_Witness ==
    /\ autosave /\ IsFile /\ pc = "idle" /\ op = "delitem" /\ result = "KeyError"

\* C9: when a step of a save has failed, the call that ran the save ends at
\* that failure with an exception (nothing is tried after it), and in safe mode
\* the target is as it was before that save.
C9_FailurePropagates ==
    (Returned /\ failed # {})
        => /\ result # "ok"
           /\ Cardinality(failed) = 1
           /\ safely_write => FileOf(fs) = saveFile

\* C10: when creating the missing parent directory fails, the save ends there
\* with that failure: nothing of the save runs after it.
C10_MakedirsFatal ==
    ("makedirs" \in failed) => (Returned /\ result = "OSError" /\ failed = {"makedirs"})


\* C11 as stated: whenever construction fails in reading or decoding the file
\* it found, it fails with the parse error.
C11_AlwaysParseError ==
    (pc = "dead" /\ failed \cap {"read", "loads"} # {}) => result = "ValueError"

\* C11, amended: construction on a file that does not hold a JSON document in
\* the object's format ends with no object, whatever autosave, compress and
\* safely_write are: with the parse error when the bytes the object reads
\* (through gzip when it compresses) are not a JSON document, with the gzip
\* reader's IOError when it compresses and the file is no gzip stream.  The
\* failing step changes no file and no directory, and nothing runs after it.
C11_MalformedAtOpen ==
    [][/\ (op = "init" /\ pc = "load" /\ ReadDump.ok /\ ~WellFormed(ReadDump.bytes))
          => /\ pc' = "dead"
             /\ result' = "ValueError"
             /\ fs' = fs
             /\ dirExists' = dirExists
       /\ (op = "init" /\ pc = "load" /\ ~ReadDump.ok)
          => /\ pc' = "dead"
             /\ result' = "IOError"
             /\ compress /\ ~IsGzip(fs[Target])
             /\ fs' = fs
             /\ dirExists' = dirExists
       /\ pc = "dead" => (pc' = "dead" /\ fs' = fs /\ dirExists' = dirExists)]_vars

\* C11 witness: construction with autosave and compression on and safe writing
\* off has failed on a gzip file that holds a cut-off document.
C11_Witness ==
    /\ pc = "dead" /\ result = "ValueError"
    /\ autosave /\ compress /\ ~safely_write
    /\ IsFile /\ fs[Target] = Gzip(<<LBrace>>)

\* C12 as stated: with no file at the path the constructed dict is empty.
C12_EmptyWithoutFile ==
    (op = "init" /\ ReturnedOk /\ ~saveFile.exists) => data = EmptyDict

\* C12, amended: with no file at the path the constructor returns with the
\* dict holding what its extra arguments put there and touches no file or
\* directory; with a file it goes to load(), which decodes the file as it is,
\* and when the constructor returns the dict is exactly that decoded content.
C12_OpenSemantics ==
    [][/\ (pc = "new" /\ ~IsFile)
          => /\ pc' = "idle" /\ result' = "ok"
             /\ data' = data
             /\ fs' = fs /\ dirExists' = dirExists
       /\ (pc = "new" /\ IsFile) => pc' = "load"
       /\ (op = "init" /\ pc = "load" /\ pc' # "dead")
          => (Reloaded.ok /\ loaded' = Reloaded.dict)
       /\ (op' = "init" /\ pc \notin {"new", "load"}) => loaded' = loaded
       /\ (op = "init" /\ pc \notin {"new", "idle"} /\ pc' = "idle")
          => (result' = "ok" /\ data' = loaded')]_vars

\* C12 witness: constructed with initial content and no file: the content is
\* in the dict and there is still no file.
C12_Witness ==
    /\ op = "init" /\ ReturnedOk
    /\ ~saveFile.exists /\ ~IsFile
    /\ data # EmptyDict

\* The complete documents a save can put at the target.
Documents == {Stream(dumps(m)) : m \in Dicts}

\* The first object is between mkstemp and the move.
Writing == pc \in {"sw_write", "sw_close", "sw_move"}

\* C13: two objects on one file, both writing safely: their temp files are
\* different files; the target is at every step the file found at the start
\* or one complete document; each move puts its own object's document at the
\* target and no other step changes the target, so the target holds the
\* document of the move that came last.
C13_LastWriterWins ==
    /\ []((Writing /\ other.pc \in {"sw_write", "sw_move"}) => tmp_fn # other.tmp_fn)
    /\ [](IsFile => (fs[Target] \in InitFiles \/ fs[Target] \in Documents))
    /\ [][IF pc = "sw_move" /\ pc' # "sw_move"
          THEN FileOf(fs') = [exists |-> TRUE, content |-> Stream(dump)]
          ELSE IF other.pc = "sw_move" /\ other'.pc = "idle"
          THEN FileOf(fs') = [exists |-> TRUE, content |-> Stream(dumps(other.data))]
          ELSE FileOf(fs') = FileOf(fs)]_vars

\* C13 witness: the second object made its temp file while the first object's
\* temp file was there, both saves are done, and the target holds the second
\* object's document, which is not the first object's.
C13_Witness ==
    /\ ReturnedOk /\ op = "save"
    /\ other.pc = "idle"
    /\ tmp_fn = 1 /\ other.tmp_fn = 2
    /\ IsFile /\ fs[Target] = Stream(dumps(other.data))
    /\ fs[Target] # Stream(dump)

Reads == {"getitem", "contains", "iter"}

\* C14: while the object is not in a call, every step that ends in a read
\* having been the last call is one of two kinds.  Either it is the read: a
\* lookup, a membership test or an iteration, which gives what the dict in
\* memory holds and changes neither the dict nor any file or directory.  Or it
\* is a step of another writer, which changes neither the dict nor the value
\* read; so a read after it still gives the dict's own content.
C14_ReadsFromMemory ==
    [][(pc = "idle" /\ pc' = "idle" /\ op' \in Reads)
         => \/ /\ data' = data /\ fs' = fs /\ dirExists' = dirExists
               /\ other' = other
               /\ op' = "iter" => (ret' = data /\ result' = "ok")
               /\ op' = "contains"
                  => (result' = "ok" /\ \E k \in Keys : ret' = Only(data, k))
               /\ op' = "getitem"
                  => \E k \in Keys :
                       /\ ret' = Only(data, k)
                       /\ result' = IF k \in DOMAIN data THEN "ok" ELSE "KeyError"
            \/ /\ (fs' # fs \/ other' # other \/ dirExists' # dirExists)
               /\ UNCHANGED <<data, ret, op, result>>]_vars

\* C14 witness: another writer has replaced the file with a document that
\* differs from the dict, and an iteration after that gave the dict's content.
C14_Witness ==
    /\ op = "iter" /\ ReturnedOk /\ ret = data
    /\ other.pc = "idle" /\ other.tmp_fn # 0
    /\ IsFile /\ fs[Target] = Stream(dumps(other.data))
    /\ other.data # data

\* C15: after save() has returned normally on an object with compression on,
\* the target is a gzip stream and a gzip decoder gives from it the bytes an
\* object without compression writes for the same dict.
C15_CompressionTransparent ==
    (ReturnedOk /\ op = "save" /\ compress)
        => (IsFile /\ IsGzip(fs[Target]) /\ Gunzip(fs[Target]) = dumps(data))

\* C16: once constructed, the object compresses as the compress argument says,
\* or, the argument being None, exactly when the filename ends with '.gz';
\* what a save writes is a gzip stream exactly when the object compresses, and
\* a load gets through the read exactly on such a file.
C16_CompressResolution ==
    /\ [](pc # "new"
            => compress = (IF compressArg = "None" THEN filename.gz
                           ELSE compressArg = "True"))
    /\ [](pc = "sw_move" => (IsGzip(fs[tmp_fn]) <=> compress))
    /\ [][/\ (pc = "uw_drop" /\ "close" \notin failed')
             => (IsGzip(fs'[Target]) <=> compress)
          /\ (pc = "load" /\ pc' # "load" /\ failed' = {})
             => (IsGzip(fs[Target]) <=> compress)]_vars

\* C16 witness: the filename ends with '.gz', the argument says not to
\* compress, and a save has written the plain document.
C16_Witness ==
    /\ filename.gz /\ compressArg = "False"
    /\ ReturnedOk /\ op = "save"
    /\ IsFile /\ fs[Target] = dumps(data)

\* The keys of the entries of document doc go up strictly.
Ascending(doc) ==
    \A i, j \in 2..(Len(doc) - 1) : i < j => doc[i][2] < doc[j][2]

\* C17: the document a save writes is the same for every order in which the
\* dict gives its keys: it is fixed by the dict's content alone and has the
\* keys in ascending order.
C17_Deterministic ==
    pc \in {"mkstemp", "sw_write", "sw_close", "sw_move", "open_w", "uw_write", "uw_drop"}
        => (dump = dumps(data) /\ Ascending(dump))

\* C17 witness: a dict of two keys has been written out in full.
C17_Witness ==
    /\ pc = "sw_move"
    /\ Cardinality(DOMAIN data) = 2
    /\ fs[tmp_fn] = Stream(dumps(data))

\* C18: no step of load(), the load in the constructor included, changes the
\* target or makes a file or a directory.
C18_LoadOnlyReads ==
    [][(op \in {"load", "init"} /\ op' = op)
         => (fs' = fs /\ dirExists' = dirExists)]_vars

\* C19: safe mode with autosave on.  A mutator that ends with the error of its
\* save leaves the target as it was when the call started, and no step of the
\* save takes the change out of the dict; every save that returns normally,
\* after such a failure too, leaves the decoded target equal to the whole dict.
C19_DivergenceAndRecovery ==
    /\ []((safely_write /\ autosave)
            => /\ (Returned /\ op \in Mutators /\ result \notin {"ok", "KeyError"})
                  => FileOf(fs) = saveFile
               /\ (ReturnedOk /\ op \in Mutators \cup {"save"}) => DiskEqualsMemory)
    /\ [][(op \in Mutators /\ op' = op /\ pc # "idle") => data' = data]_vars

\* C19 witness: after an injected fault, an autosaving mutator has returned
\* normally and has replaced the target: file and dict agree again.
C19_Witness ==
    /\ safely_write /\ autosave
    /\ faults > 0
    /\ ReturnedOk /\ op \in Mutators
    /\ FileOf(fs) # saveFile
    /\ DiskEqualsMemory

\* C20: without safe writing no temp file is ever made, and when a save (or a
\* mutator's autosave) has returned normally the target holds the whole
\* document of the dict.
C20_UnsafeInPlace ==
    ~safely_write
        => /\ DOMAIN fs \subseteq {Target}
           /\ (ReturnedOk /\ op \in ({"save"} \cup (IF autosave THEN Mutators ELSE {})))
                 => FileOf(fs) = NewFile

====
